---------------------------- MODULE Spec2Model ----------------------------
(***************************************************************************)
(* A model of the two converters of snmpsim_tools:                         *)
(*                                                                         *)
(*   scripts/snmpwalk_to_snmpsim.py          (walk normalisation)          *)
(*   scripts/qa_device_simulator_to_snmpsim.py (definition conversion)     *)
(*                                                                         *)
(* Text is modelled as a sequence of tokens.  A token is either a single   *)
(* character ("5", ".", " ") or one of the literals the code searches for  *)
(* (".1.3.6.", "INTEGER:", "TenthdBmV", ...).  The input lines are chosen  *)
(* so that matching on tokens coincides with matching on characters.       *)
(***************************************************************************)
EXTENDS Integers, Sequences, FiniteSets, TLC

VARIABLES
    \* ---- snmpwalk_to_snmpsim.py ----
    pc,             \* position of main()
    inputFile,      \* the lines of the SNMP walk given with --input
    decodeError,    \* whether the codec raised UnicodeDecodeError during the conversion
    tempFile,       \* <input>_temp: [exists, lines]
    outTextFile,    \* the output file: [exists, lines]
    previousLine,   \* main(): previousLine
    lineCount,      \* main(): lineCount
    stdout,         \* the messages printed so far
    \* ---- qa_device_simulator_to_snmpsim.py: main() ----
    qaPc,                           \* position of main()
    xmlFile,                        \* the Definition elements of the (updated) XML file: [nested, flat]
    qaDeviceSimulatorDefinitions,   \* main(): result of ParseQADeviceSimulatorFile
    snmpsimRecords,                 \* main(): result of ConvertSimulationFile
    snmprecFile,                    \* the output file: [exists, rows]
    qaStdout,                       \* the messages printed so far
    \* ---- qa_device_simulator_to_snmpsim.py: ValidateAndReplaceXmlFile ----
    sanPc,          \* position of ValidateAndReplaceXmlFile
    fileLines,      \* the lines read from the XML file
    lineIndex,      \* number of lines of fileLines already handled by the loop
    updatedLines,   \* ValidateAndReplaceXmlFile: updatedLines
    updatedFile     \* <stem>_updated.xml: [exists, lines]

walkVars == <<pc, inputFile, decodeError, tempFile, outTextFile,
              previousLine, lineCount, stdout>>
qaVars   == <<qaPc, xmlFile, qaDeviceSimulatorDefinitions, snmpsimRecords,
              snmprecFile, qaStdout>>
sanVars  == <<sanPc, fileLines, lineIndex, updatedLines, updatedFile>>
vars     == <<walkVars, qaVars, sanVars>>

-----------------------------------------------------------------------------
(* Bounds of the model *)

\* longest SNMP walk (in lines) given to snmpwalk_to_snmpsim.py
MaxLines == 3

-----------------------------------------------------------------------------
(* Generic helpers *)

NoFile == [exists |-> FALSE, lines |-> <<>>]

File(ls) == [exists |-> TRUE, lines |-> ls]

RECURSIVE SeqsUpTo(_, _)
\* all sequences over S of length at most n
SeqsUpTo(S, n) ==
    IF n = 0 THEN {<<>>}
    ELSE LET shorter == SeqsUpTo(S, n - 1)
         IN  shorter \cup {Append(s, x) : s \in {t \in shorter : Len(t) = n - 1}, x \in S}

Contains(line, tokens) == \E i \in 1..Len(line) : line[i] \in tokens


-----------------------------------------------------------------------------
(* snmpwalk_to_snmpsim.py: the text operations of main() *)

NoSuchObject == "No Such Object available on this agent at this OID"

\* the characters removed by re.sub(r"[\n\t\f\v]*", "", line)
EscapeCharacters == {"\n", "\t", "\f", "\\v"}

\* characters for which str.isprintable() is False once the escape characters are gone
NonPrintable == {"\r", "\\x07"}

Digits == {"0", "1", "2", "3", "4", "5", "6", "7", "8", "9"}

\* the characters kept by re.sub('[^-?\d+\.]', "", ...)
NumericCharacters == Digits \cup {"-", "?", "+", "."}

DigitValue(d) ==
    CASE d = "0" -> 0 [] d = "1" -> 1 [] d = "2" -> 2 [] d = "3" -> 3 [] d = "4" -> 4
      [] d = "5" -> 5 [] d = "6" -> 6 [] d = "7" -> 7 [] d = "8" -> 8 [] d = "9" -> 9

DigitChar(n) == <<"0", "1", "2", "3", "4", "5", "6", "7", "8", "9">>[n + 1]

\* the characters of a token
Characters(t) ==
    CASE t = ".1.3.6." -> <<".", "1", ".", "3", ".", "6", ".">>
      [] t = "1.3.6."  -> <<"1", ".", "3", ".", "6", ".">>
      [] OTHER         -> <<t>>

\* lineUpdated = re.sub(r"[\n\t\f\v]*", "", line)
StripEscapes(line) == SelectSeq(line, LAMBDA t : t \notin EscapeCharacters)

\* lineUpdated.isprintable()
IsPrintable(line) == ~Contains(line, NonPrintable)

\* lineUpdated.startswith(".1.3.6.") or lineUpdated.startswith("1.3.6.")
StartsWithOid(line) == Len(line) > 0 /\ line[1] \in {".1.3.6.", "1.3.6."}

\* lineUpdated.find("TenthdBmV") != -1 or lineUpdated.find("TenthdB") != -1
HasUnit(line) == Contains(line, {"TenthdBmV"}) \/ Contains(line, {"TenthdB"})

\* lineUpdated.find("No Such Object available on this agent at this OID") != -1
HasNoSuchObject(line) == Contains(line, {NoSuchObject})

\* a line with a separator put between the record and its continuation
StitchWithSeparator(previous, line) == previous \o <<" ">> \o line

\* lineUpdated = previousLine + lineUpdated
Stitch(previous, line) == previous \o line

\* lineUpdated.partition("INTEGER:"): <<before, separator, after>>
Partition(line) ==
    IF Contains(line, {"INTEGER:"})
    THEN LET i == CHOOSE k \in 1..Len(line) :
                     /\ line[k] = "INTEGER:"
                     /\ \A j \in 1..(k - 1) : line[j] # "INTEGER:"
         IN  <<SubSeq(line, 1, i - 1), <<"INTEGER:">>, SubSeq(line, i + 1, Len(line))>>
    ELSE <<line, <<>>, <<>>>>

RECURSIVE Flatten(_)
\* the characters of a text
Flatten(line) ==
    IF line = <<>> THEN <<>> ELSE Characters(Head(line)) \o Flatten(Tail(line))

\* re.sub('[^-?\d+\.]', "", text)
NumericText(line) == SelectSeq(Flatten(line), LAMBDA c : c \in NumericCharacters)

\* a text without its leading sign
Unsigned(text) ==
    IF text # <<>> /\ Head(text) \in {"-", "+"} THEN Tail(text) ELSE text

\* float(text) returns: [sign] digits [. digits] | [sign] . digits
\* (no exponent, "inf" or "nan" can be left after NumericText)
IsFloatLiteral(text) ==
    LET u == Unsigned(text)
    IN  /\ \A i \in 1..Len(u) : u[i] \in Digits \cup {"."}
        /\ Cardinality({i \in 1..Len(u) : u[i] = "."}) <= 1
        /\ \E i \in 1..Len(u) : u[i] \in Digits

RECURSIVE DigitsValue(_)
\* the number written by a sequence of digits
DigitsValue(ds) ==
    IF ds = <<>> THEN 0
    ELSE DigitsValue(SubSeq(ds, 1, Len(ds) - 1)) * 10 + DigitValue(ds[Len(ds)])

\* int(float(text) * 100): two digits too many are kept
ScaledBy100(text) ==
    LET u     == Unsigned(text)
        dots  == {i \in 1..Len(u) : u[i] = "."}
        dot   == IF dots = {} THEN Len(u) + 1 ELSE CHOOSE i \in dots : TRUE
        whole == DigitsValue(SubSeq(u, 1, dot - 1))
        t1    == IF dot + 1 <= Len(u) THEN DigitValue(u[dot + 1]) ELSE 0
        t2    == IF dot + 2 <= Len(u) THEN DigitValue(u[dot + 2]) ELSE 0
        mag   == whole * 100 + t1 * 10 + t2
    IN  IF text # <<>> /\ Head(text) = "-" THEN 0 - mag ELSE mag

\* int(float(text) * 10) for a float literal: the value times ten, truncated towards zero
Scaled(text) ==
    LET u     == Unsigned(text)
        dots  == {i \in 1..Len(u) : u[i] = "."}
        dot   == IF dots = {} THEN Len(u) + 1 ELSE CHOOSE i \in dots : TRUE
        whole == DigitsValue(SubSeq(u, 1, dot - 1))
        tenth == IF dot + 1 <= Len(u) THEN DigitValue(u[dot + 1]) ELSE 0
        mag   == whole * 10 + tenth
    IN  IF text # <<>> /\ Head(text) = "-" THEN 0 - mag ELSE mag

RECURSIVE NatStr(_)
\* str(n) for n >= 0
NatStr(n) == IF n < 10 THEN <<DigitChar(n)>> ELSE NatStr(n \div 10) \o <<DigitChar(n % 10)>>

\* str(n)
IntStr(n) == IF n < 0 THEN <<"-">> \o NatStr(0 - n) ELSE NatStr(n)

\* float(re.sub('[^-?\d+\.]', "", linePartitioned[2])) raises ValueError
RawValueFails(line) == ~IsFloatLiteral(NumericText(Partition(line)[3]))

\* linePartitioned[0] + linePartitioned[1] + ' ' + str(int(rawValue * 10))
Rewritten(line) ==
    LET linePartitioned == Partition(line)
    IN  linePartitioned[1] \o linePartitioned[2] \o <<" ">>
            \o IntStr(Scaled(NumericText(linePartitioned[3])))

-----------------------------------------------------------------------------
(* snmpwalk_to_snmpsim.py: the inputs *)

\* the lines an SNMP walk is made of here: records with either OID prefix, a
\* continuation, records and a continuation carrying a unit, absent-object
\* lines with and without an OID, a line with a non-printable character and
\* an empty line
WalkLines ==
    { <<".1.3.6.", "1", " ", "INTEGER:", " ", "5", "\n">>,
      <<"1.3.6.", "2", " ", "INTEGER:", " ", "7", "\n">>,
      <<"continued text", "\n">>,
      <<".1.3.6.", "1", " ", "=", " ", "INTEGER:", " ", "1", "2", ".", "3", " ", "TenthdBmV", "\n">>,
      <<".1.3.6.", "3", " ", "=", " ", "STRING:", " ", "TenthdB", "\n">>,
      <<".1.3.6.", "6", " ", "TenthdB", " ", "INTEGER:", " ", "-", "0", ".", "5", "\n">>,
      <<"\t", ".", "5", " ", "TenthdB", "\n">>,
      <<".1.3.6.", "4", " ", "=", " ", NoSuchObject, "\n">>,
      <<NoSuchObject, "\n">>,
      <<".1.3.6.", "5", " ", "\\x07", "\n">>,
      <<"\n">> }

\* the path given with --input
InputFilePath == "walk.txt"

-----------------------------------------------------------------------------
(* snmpwalk_to_snmpsim.py: convertFileWithDetection, writeConversion, main *)

Message(text, line) == [text |-> text, path |-> InputFilePath, line |-> line]

Say(message) == stdout' = Append(stdout, message)

\* convertFileWithDetection returns after writeConversion copied every line
ConversionDone ==
    /\ pc = "convert"
    /\ tempFile' = File(inputFile)
    /\ decodeError' = FALSE
    /\ stdout' = stdout \o <<Message("Converting file", 0), Message("Conversion done", 0)>>
    /\ pc' = "open"
    /\ UNCHANGED <<inputFile, outTextFile, previousLine, lineCount>>
    /\ UNCHANGED <<qaVars, sanVars>>

\* the codec raises UnicodeDecodeError while writeConversion reads the source:
\* the target file was opened before, and holds the lines read until then
ConversionFailed ==
    /\ pc = "convert"
    /\ \E written \in 0..(Len(inputFile) - 1) :
           tempFile' = File(SubSeq(inputFile, 1, written))
    /\ decodeError' = TRUE
    /\ stdout' = stdout \o <<Message("Converting file", 0), Message("Failed to convert file", 0)>>
    /\ pc' = "open"
    /\ UNCHANGED <<inputFile, outTextFile, previousLine, lineCount>>
    /\ UNCHANGED <<qaVars, sanVars>>

\* with open(temporaryFilePath, 'r') as inTextFile, open(outputFile, 'w') as outTextFile
OpenFiles ==
    /\ pc = "open"
    /\ IF tempFile.exists
       THEN \/ /\ outTextFile' = File(<<>>)
               /\ previousLine' = <<>>
               /\ pc' = "loop"
            \/ /\ pc' = "crashed"       \* open(outputFile) raises
               /\ UNCHANGED <<outTextFile, previousLine>>
       ELSE /\ pc' = "crashed"          \* open(temporaryFilePath) raises
            /\ UNCHANGED <<outTextFile, previousLine>>
    /\ UNCHANGED <<inputFile, decodeError, tempFile, lineCount, stdout>>
    /\ UNCHANGED <<qaVars, sanVars>>

\* outTextFile.write done twice over
WriteTwice(text) == outTextFile' = File(outTextFile.lines \o <<text, text>>)

\* outTextFile.write("{}\n".format(text))
Write(text) == outTextFile' = File(Append(outTextFile.lines, text))

\* the body of "for line in inTextFile"
ProcessLine ==
    /\ pc = "loop"
    /\ lineCount < Len(tempFile.lines)
    /\ lineCount' = lineCount + 1
    /\ LET line        == tempFile.lines[lineCount + 1]
           stripped    == StripEscapes(line)
           continues   == ~StartsWithOid(stripped)
           lineUpdated == IF continues THEN Stitch(previousLine, stripped) ELSE stripped
           stitched    == IF continues THEN lineUpdated ELSE previousLine
           notValid    == IF continues
                          THEN <<Message("Not valid SNMP walk record", lineCount + 1)>>
                          ELSE <<>>
       IN  IF ~IsPrintable(stripped)
           THEN /\ Say(Message("This line contains an invalid character", lineCount + 1))
                /\ UNCHANGED <<outTextFile, previousLine, pc>>
           ELSE IF HasUnit(lineUpdated)
           THEN IF RawValueFails(lineUpdated)
                THEN /\ previousLine' = stitched
                     /\ pc' = "crashed"     \* float() raises ValueError
                     /\ stdout' = stdout \o notValid
                     /\ UNCHANGED outTextFile
                ELSE /\ Write(Rewritten(lineUpdated))
                     /\ previousLine' = Rewritten(lineUpdated)
                     /\ stdout' = stdout \o notValid
                     /\ UNCHANGED pc
           ELSE IF HasNoSuchObject(lineUpdated)
           THEN /\ previousLine' = stitched
                /\ stdout' = stdout \o notValid
                               \o <<Message("Invalid SNMP record: No Such Object", lineCount + 1)>>
                /\ UNCHANGED <<outTextFile, pc>>
           ELSE /\ Write(stitched)
                /\ previousLine' = lineUpdated
                /\ stdout' = stdout \o notValid
                /\ UNCHANGED pc
    /\ UNCHANGED <<inputFile, decodeError, tempFile>>
    /\ UNCHANGED <<qaVars, sanVars>>

\* the loop ends, the pending previousLine is written, both files are closed
EndOfInputFlushing ==
    /\ pc = "loop"
    /\ lineCount = Len(tempFile.lines)
    /\ outTextFile' = File(Append(outTextFile.lines, previousLine))
    /\ pc' = "remove"
    /\ UNCHANGED <<inputFile, decodeError, tempFile, previousLine, lineCount, stdout>>
    /\ UNCHANGED <<qaVars, sanVars>>

\* the loop ends and the with block closes both files
EndOfInput ==
    /\ pc = "loop"
    /\ lineCount = Len(tempFile.lines)
    /\ pc' = "remove"
    /\ UNCHANGED <<inputFile, decodeError, tempFile, outTextFile, previousLine, lineCount, stdout>>
    /\ UNCHANGED <<qaVars, sanVars>>

\* if os.path.exists(temporaryFilePath): os.remove(...) else: ...
RemoveTemporaryFile ==
    /\ pc = "remove"
    /\ IF tempFile.exists
       THEN /\ tempFile' = NoFile
            /\ Say(Message("Temporary file removed", 0))
       ELSE /\ Say(Message("Temporary file could not be found", 0))
            /\ UNCHANGED tempFile
    /\ pc' = "done"
    /\ UNCHANGED <<inputFile, decodeError, outTextFile, previousLine, lineCount>>
    /\ UNCHANGED <<qaVars, sanVars>>

WalkInit ==
    /\ pc = "convert"
    /\ inputFile \in SeqsUpTo(WalkLines, MaxLines)
    /\ decodeError = FALSE
    /\ tempFile = NoFile
    /\ outTextFile = NoFile
    /\ previousLine = <<>>
    /\ lineCount = 0
    /\ stdout = <<>>

Next ==
    \/ ConversionDone
    \/ ConversionFailed
    \/ OpenFiles
    \/ ProcessLine
    \/ EndOfInput
    \/ RemoveTemporaryFile

\* no definition conversion is running
QaIdle ==
    /\ qaPc = "idle"
    /\ xmlFile = [nested |-> <<>>, flat |-> <<>>]
    /\ qaDeviceSimulatorDefinitions = [none |-> TRUE, value |-> <<>>]
    /\ snmpsimRecords = [none |-> TRUE, value |-> <<>>]
    /\ snmprecFile = NoFile
    /\ qaStdout = <<>>

\* no XML file is being validated
SanIdle ==
    /\ sanPc = "idle"
    /\ fileLines = <<>>
    /\ lineIndex = 0
    /\ updatedLines = <<>>
    /\ updatedFile = NoFile

Init == WalkInit /\ QaIdle /\ SanIdle

\* a run of snmpwalk_to_snmpsim.py
Spec == Init /\ [][Next]_vars

-----------------------------------------------------------------------------
(* snmpwalk_to_snmpsim.py: properties of the Line Stage *)

\* the Line Stage is about to handle a line
AtLine == pc = "loop" /\ lineCount < Len(tempFile.lines)

\* the line it is about to handle, without its escape characters
CurrentLine == StripEscapes(tempFile.lines[lineCount + 1])

\* that line after any stitching
CurrentStitched ==
    IF StartsWithOid(CurrentLine) THEN CurrentLine ELSE previousLine \o CurrentLine

\* the step handles the line
HandlesLine == AtLine /\ lineCount' = lineCount + 1

\* what the step appends to the output
NewlyWritten ==
    SubSeq(outTextFile'.lines, Len(outTextFile.lines) + 1, Len(outTextFile'.lines))

\* the last line handled, without its escape characters
LastLine == StripEscapes(tempFile.lines[lineCount])

UnitMarkers == {"TenthdBmV", "TenthdB"}

\* C1: no line of the output contains the absent-object text, be it a line
\* of its own or part of a stitched record.
C1_NoAbsentObjectInOutput ==
    \A i \in 1..Len(outTextFile.lines) :
        \A j \in 1..Len(outTextFile.lines[i]) : outTextFile.lines[i][j] # NoSuchObject

\* a printable line that starts with neither OID prefix is handled
ContinuationStep ==
    /\ HandlesLine
    /\ IsPrintable(CurrentLine)
    /\ ~StartsWithOid(CurrentLine)

\* C2 as claimed: every printable line that starts with neither ".1.3.6." nor
\* "1.3.6." makes previousLine previous + current, and is never written as a
\* line of its own.
C2_StitchedNeverStandalone ==
    [][ContinuationStep =>
          /\ previousLine' = previousLine \o CurrentLine
          /\ \A i \in 1..Len(NewlyWritten) : NewlyWritten[i] # CurrentLine]_vars

\* C2 as amended: every printable line that starts with neither prefix is
\* concatenated onto previousLine; when the concatenation carries no unit
\* marker, previousLine ends the iteration as previous + current, and when
\* previousLine was not empty, whatever the iteration writes is previous +
\* current, not the fragment alone.
C2_StitchedOntoPrevious ==
    [][(ContinuationStep /\ ~Contains(previousLine \o CurrentLine, UnitMarkers)) =>
          /\ previousLine' = previousLine \o CurrentLine
          /\ previousLine # <<>> =>
                \A i \in 1..Len(NewlyWritten) :
                    /\ NewlyWritten[i] = previousLine \o CurrentLine
                    /\ NewlyWritten[i] # CurrentLine]_vars

\* C2 witness: "continued text" was read after a record, and both previousLine
\* and the line just written are the record followed by the fragment.
C2_Witness ==
    /\ pc = "loop"
    /\ lineCount = 2
    /\ LastLine = <<"continued text">>
    /\ previousLine = <<".1.3.6.", "1", " ", "INTEGER:", " ", "5", "continued text">>
    /\ outTextFile.lines[Len(outTextFile.lines)] = previousLine

\* a printable line that, once stitched, carries a unit marker is handled
UnitStep ==
    /\ HandlesLine
    /\ IsPrintable(CurrentLine)
    /\ Contains(CurrentStitched, UnitMarkers)

\* the places of "INTEGER:" in a text
MarkerPlaces(text) == {k \in 1..Len(text) : text[k] = "INTEGER:"}

\* the place of the first "INTEGER:" in a text that has one
FirstMarker(text) ==
    CHOOSE k \in MarkerPlaces(text) : \A j \in MarkerPlaces(text) : k <= j

\* the digits, signs and points that follow the first "INTEGER:"
ValueText(text) ==
    NumericText(SubSeq(text, FirstMarker(text) + 1, Len(text)))

\* a text that writes a number: an optional sign, digits, at most one point
WritesNumber(text) ==
    LET body == IF text # <<>> /\ text[1] \in {"-", "+"} THEN Tail(text) ELSE text
    IN  /\ \A i \in 1..Len(body) : body[i] \in Digits \cup {"."}
        /\ Cardinality({i \in 1..Len(body) : body[i] = "."}) <= 1
        /\ \E i \in 1..Len(body) : body[i] \in Digits

RECURSIVE PowerOfTen(_)
PowerOfTen(n) == IF n = 0 THEN 1 ELSE 10 * PowerOfTen(n - 1)

\* the number a text writes, times ten, truncated towards zero: with the
\* number being m / 10^f, the quotient of 10 * m by 10^f
TenTimesTruncated(text) ==
    LET body     == IF text[1] \in {"-", "+"} THEN Tail(text) ELSE text
        digits   == SelectSeq(body, LAMBDA c : c \in Digits)
        point    == {i \in 1..Len(body) : body[i] = "."}
        fraction == IF point = {} THEN 0 ELSE Len(body) - (CHOOSE i \in point : TRUE)
        quotient == (10 * DigitsValue(digits)) \div PowerOfTen(fraction)
    IN  IF text[1] = "-" THEN 0 - quotient ELSE quotient

\* the line the unit rewriting is to produce
ExpectedRewrite(text) ==
    SubSeq(text, 1, FirstMarker(text)) \o <<" ">> \o IntStr(TenTimesTruncated(ValueText(text)))

C7_TempFileRemoved ==
    pc \in {"done", "crashed"} => ~tempFile.exists

\* C8: whenever the re-encoding failed with a decode error, the failure
\* message naming the input path is printed, the Line Stage handles no line of
\* the temporary file and nothing is written to the output file.
C8_EncodingFailureHalts ==
    decodeError =>
        /\ \E i \in 1..Len(stdout) :
               stdout[i].text = "Failed to convert file" /\ stdout[i].path = InputFilePath
        /\ lineCount = 0
        /\ outTextFile.lines = <<>>

\* a printable line that, once stitched, carries neither a unit marker nor the
\* absent-object text is handled: the delayed write
DelayedStep ==
    /\ HandlesLine
    /\ IsPrintable(CurrentLine)
    /\ ~Contains(CurrentStitched, UnitMarkers)
    /\ ~Contains(CurrentStitched, {NoSuchObject})

\* C11 as claimed: whenever a printable line with no unit marker and no
\* absent-object text is handled, be it an OID record or a continuation, the
\* one text written is the value previousLine had before the line was read,
\* and afterwards previousLine is the current, possibly stitched, line.
C11_WritesEarlierPreviousLine ==
    [][DelayedStep =>
          /\ NewlyWritten = <<previousLine>>
          /\ previousLine' = CurrentStitched]_vars

\* C11 as amended: whenever such a line is handled, the one text written is,
\* for a line that starts with an OID prefix, the value previousLine had before
\* the line was read, and for a continuation, that value followed by the
\* continuation itself; afterwards previousLine is the current, possibly
\* stitched, line.
C11_DelayedWrite ==
    [][DelayedStep =>
          /\ StartsWithOid(CurrentLine) => NewlyWritten = <<previousLine>>
          /\ ~StartsWithOid(CurrentLine) => NewlyWritten = <<previousLine \o CurrentLine>>
          /\ previousLine' = CurrentStitched]_vars

\* C11 witness: "1.3.6.2 INTEGER: 7" was read after ".1.3.6.1 INTEGER: 5": the
\* earlier record is the line just written, the later one is previousLine.
C11_Witness ==
    /\ pc = "loop"
    /\ lineCount = 2
    /\ LastLine = <<"1.3.6.", "2", " ", "INTEGER:", " ", "7">>
    /\ previousLine = LastLine
    /\ outTextFile.lines = << <<>>, <<".1.3.6.", "1", " ", "INTEGER:", " ", "5">> >>

\* every line of the temporary file has been handled
InputEnded ==
    \/ pc = "loop" /\ lineCount = Len(tempFile.lines)
    \/ pc \in {"remove", "done"}

\* the delayed write handles the last line of the input
FinalDelayedStep == DelayedStep /\ lineCount' = Len(tempFile.lines)

\* a text is a line of a file
IsLineOf(text, file) == \E i \in 1..Len(file.lines) : file.lines[i] = text

\* the record the step handles is no text the stage has met before: neither
\* previousLine nor a line written earlier equals it
FreshRecord == CurrentStitched # previousLine /\ ~IsLineOf(CurrentStitched, outTextFile)

\* C12 as claimed: nothing is written after the last input line was handled,
\* and when the delayed write handles the last line, the final record - a
\* plain OID record, or an OID record with its trailing continuation lines -
\* is no line of the output.
C12_FinalRecordLost ==
    [][/\ InputEnded => outTextFile' = outTextFile
       /\ (FinalDelayedStep /\ FreshRecord /\ StartsWithOid(CurrentStitched)) =>
              ~IsLineOf(CurrentStitched, outTextFile')]_vars

\* C12 as amended: nothing is written after the last input line was handled;
\* when the delayed write handles a last line that starts with an OID prefix,
\* that final record is no line of the output; when it handles a last line that
\* is a continuation, the final stitched record is the line that step writes.
C12_NoFlushAtEnd ==
    [][/\ InputEnded => outTextFile' = outTextFile
       /\ (FinalDelayedStep /\ FreshRecord /\ StartsWithOid(CurrentLine)) =>
              ~IsLineOf(CurrentStitched, outTextFile')
       /\ (FinalDelayedStep /\ ~StartsWithOid(CurrentLine)) =>
              /\ NewlyWritten = <<CurrentStitched>>
              /\ IsLineOf(CurrentStitched, outTextFile')]_vars

\* C12 witness: the input ended with "1.3.6.2 INTEGER: 7" after
\* ".1.3.6.1 INTEGER: 5": the loop is over, the final record is held in
\* previousLine and is no line of the output.
C12_Witness ==
    /\ pc = "remove"
    /\ lineCount = 2
    /\ LastLine = <<"1.3.6.", "2", " ", "INTEGER:", " ", "7">>
    /\ previousLine = LastLine
    /\ outTextFile.lines = << <<>>, <<".1.3.6.", "1", " ", "INTEGER:", " ", "5">> >>
    /\ ~IsLineOf(LastLine, outTextFile)

\* the i-th line the Line Stage reads, without its escape characters
InputLine(i) == StripEscapes(tempFile.lines[i])

\* the i-th line is dropped: it is not printable or it is an absent-object line
DroppedLine(i) == ~IsPrintable(InputLine(i)) \/ Contains(InputLine(i), {NoSuchObject})

\* the i-th line is a printable OID-prefixed record and no absent-object line
RecordLine(i) ==
    /\ IsPrintable(InputLine(i))
    /\ StartsWithOid(InputLine(i))
    /\ ~Contains(InputLine(i), {NoSuchObject})

\* the i-th line is followed by a line that is not dropped
HasSuccessor(i) == \E j \in (i + 1)..Len(tempFile.lines) : ~DroppedLine(j)

\* no other line of the input has the text of the i-th line
UniqueLine(i) ==
    \A j \in 1..Len(tempFile.lines) : j # i => InputLine(j) # InputLine(i)

\* the lines i+1..k are continuation lines of the i-th (or not printable)
ContinuedUpTo(i, k) ==
    \A j \in (i + 1)..k : ~IsPrintable(InputLine(j)) \/ ~StartsWithOid(InputLine(j))

RECURSIVE ExtendedUpTo(_, _)
\* the i-th line extended by its printable continuation lines up to the k-th
ExtendedUpTo(i, k) ==
    IF k <= i THEN InputLine(i)
    ELSE IF IsPrintable(InputLine(k)) THEN ExtendedUpTo(i, k - 1) \o InputLine(k)
    ELSE ExtendedUpTo(i, k - 1)

\* one text begins with another
IsPrefix(p, text) == Len(p) <= Len(text) /\ SubSeq(text, 1, Len(p)) = p

\* a text that has a unit marker and a number to rewrite
Rewritable(text) ==
    /\ Contains(text, UnitMarkers)
    /\ MarkerPlaces(text) # {}
    /\ WritesNumber(ValueText(text))

\* an output line is the i-th record: as itself, extended by stitched
\* continuation lines, or unit-rewritten (ahead of or after the stitching)
WrittenFormOf(out, i) ==
    \/ IsPrefix(InputLine(i), out)
    \/ /\ Rewritable(InputLine(i))
       /\ IsPrefix(ExpectedRewrite(InputLine(i)), out)
    \/ \E k \in i..Len(tempFile.lines) :
           /\ ContinuedUpTo(i, k)
           /\ Rewritable(ExtendedUpTo(i, k))
           /\ out = ExpectedRewrite(ExtendedUpTo(i, k))

\* how many lines of the output are the i-th record
TimesWritten(i) ==
    Cardinality({n \in 1..Len(outTextFile.lines) : WrittenFormOf(outTextFile.lines[n], i)})

\* C13: when the Line Stage has handled every line, each printable
\* OID-prefixed record that is no absent-object line and is followed by at
\* least one line that is not dropped has been written exactly once - as
\* itself, unit-rewritten, or extended by its continuation lines: neither
\* lost nor written twice. (Counted for records whose text no other input
\* line repeats.)
C13_RecordsWrittenOnce ==
    pc = "remove" =>
        \A i \in 1..Len(tempFile.lines) :
            (RecordLine(i) /\ HasSuccessor(i) /\ UniqueLine(i)) => TimesWritten(i) = 1

\* C13, one half: no such record is missing from the output
C13_NoRecordLost ==
    pc = "remove" =>
        \A i \in 1..Len(tempFile.lines) :
            (RecordLine(i) /\ HasSuccessor(i) /\ UniqueLine(i)) => TimesWritten(i) >= 1

\* C13, other half: no such record is in the output more than once
C13_NoRecordTwice ==
    pc = "remove" =>
        \A i \in 1..Len(tempFile.lines) :
            (RecordLine(i) /\ HasSuccessor(i) /\ UniqueLine(i)) => TimesWritten(i) <= 1

-----------------------------------------------------------------------------
(* qa_device_simulator_to_snmpsim.py: values, OidType, the classes *)

\* longest list of Definition elements of an XML file
MaxDefinitions == 2

\* Python values that may be None
PyNone == [none |-> TRUE, value |-> <<>>]

\* a str is kept as a one-element value, a list as its sequence
PyStr(string) == [none |-> FALSE, value |-> <<string>>]

PyList(items) == [none |-> FALSE, value |-> items]

\* "not x" for an x that is None or a list
Falsy(x) == x.none \/ Len(x.value) = 0

\* isinstance(x, str), for an x that is None or a str
IsStr(x) == ~x.none

\* class OidType(Enum): the member names, aliases included, and their values
OidType ==
    [ Integer32   |-> 2,
      OctetString |-> 4,
      Null        |-> 5,
      ObjectId    |-> 6,
      IPAddress   |-> 64,
      IpAddress   |-> 64,
      Counter32   |-> 65,
      Gauge32     |-> 66,
      TimeTicks   |-> 67,
      Opaque      |-> 68,
      Counter64   |-> 70 ]

\* enumType[name] raises no exception
enumContainsName(enumType, name) == name \in DOMAIN enumType

\* SnmpsimRecord(oid, oidType, value)
SnmpsimRecord(oid, oidType, value) == [oid |-> oid, oidType |-> oidType, value |-> value]

\* QADeviceSimulatorDefinition(oid, type, returnValue, logOutput, comment, delay, save, skipOid)
QADeviceSimulatorDefinition(oid, type, returnValue, logOutput, comment, delay, save, skipOid) ==
    [ oid         |-> oid,
      type        |-> type,
      returnValue |-> returnValue,
      logOutput   |-> logOutput,
      comment     |-> comment,
      delay       |-> IF IsStr(delay) THEN delay ELSE PyStr("NA"),
      save        |-> IF IsStr(save) THEN save ELSE PyStr("NA"),
      skipOid     |-> IF IsStr(skipOid) THEN skipOid ELSE PyStr("NA") ]

-----------------------------------------------------------------------------
(* qa_device_simulator_to_snmpsim.py: the inputs *)

\* an xml.etree.ElementTree.Element: its data attributes (its methods, such
\* as find or get, are left out: none is named like an XML attribute)
Element(attrib) == [tag |-> "Definition", attrib |-> attrib, text |-> "", tail |-> ""]

\* the type names given in XML files: the members of OidType, the name its
\* comment and the docstrings give for 6, a differently cased name, an unknown one
TypeNames ==
    { "Integer32", "OctetString", "Null", "ObjectId", "IPAddress", "IpAddress",
      "Counter32", "Gauge32", "TimeTicks", "Opaque", "Counter64",
      "ObjectIdentifier", "integer32", "Bogus" }

\* the Definition elements an XML file is made of here
Elements ==
    { Element([OID |-> oid, Type |-> type, ReturnValue |-> "5"]) :
          oid \in {"1.3.6.1", "1.3.6.2"}, type \in TypeNames }
    \cup
    { Element([OID |-> "1.3.6.3", Type |-> "OctetString", ReturnValue |-> "%RANDOM%",
               LogOutput |-> "log", Comment |-> "note", Delay |-> "10", Save |-> "True",
               SkipOID |-> "False"]),
      Element([OID |-> "1.3.6.3", Type |-> "OctetString", ReturnValue |-> "%RANDOM%",
               Delay |-> "10"]),
      Element([OID |-> "1.3.6.3", Type |-> "Gauge32", ReturnValue |-> "7",
               LogOutput |-> "log", Comment |-> "note"]),
      Element([OID |-> "1.3.6.3", ReturnValue |-> "7"]) }

-----------------------------------------------------------------------------
(* qa_device_simulator_to_snmpsim.py: the stages *)

QaMessage(text, oid, type) == [text |-> text, oid |-> oid, type |-> type]

\* hasattr(simulationRecord, name)
HasAttr(simulationRecord, name) == name \in DOMAIN simulationRecord

\* simulationRecord.attrib[name] if hasattr(simulationRecord, name) else None
AttributeOrNone(simulationRecord, name) ==
    IF HasAttr(simulationRecord, name) THEN PyStr(simulationRecord.attrib[name]) ELSE PyNone

\* simulationRecord.attrib['OID'], ['Type'] or ['ReturnValue'] raises KeyError
LacksRequired(simulationRecord) ==
    ~({"OID", "Type", "ReturnValue"} \subseteq DOMAIN simulationRecord.attrib)

\* the QADeviceSimulatorDefinition built for one Definition element
DefinitionOf(simulationRecord) ==
    QADeviceSimulatorDefinition(
        simulationRecord.attrib["OID"],
        simulationRecord.attrib["Type"],
        simulationRecord.attrib["ReturnValue"],
        AttributeOrNone(simulationRecord, "LogOutput"),
        AttributeOrNone(simulationRecord, "Comment"),
        AttributeOrNone(simulationRecord, "Delay"),
        AttributeOrNone(simulationRecord, "Save"),
        AttributeOrNone(simulationRecord, "SkipOID"))

\* rootElement.findall('.Definitions/Definition'), or, when that is empty,
\* rootElement.findall('.Definition')
ListDefinitions(xml) == IF Len(xml.nested) = 0 THEN xml.flat ELSE xml.nested

\* ParseQADeviceSimulatorFile: [result, printed]
ParseQADeviceSimulatorFile(xml) ==
    LET listDefinitions == ListDefinitions(xml)
    IN  IF Len(listDefinitions) = 0
        THEN [result  |-> PyList(<<>>),
              printed |-> <<QaMessage("No OID definitions found", "", "")>>]
        ELSE IF \E i \in 1..Len(listDefinitions) : LacksRequired(listDefinitions[i])
        THEN [result  |-> PyNone,
              printed |-> <<QaMessage("ParseQADeviceSimulatorFile|Exception", "", "")>>]
        ELSE [result  |-> PyList([i \in 1..Len(listDefinitions) |->
                                      DefinitionOf(listDefinitions[i])]),
              printed |-> <<QaMessage("Number of OID definitions", "", "")>>]

\* the record made of one definition
RecordOf(simulationRecord) ==
    SnmpsimRecord(simulationRecord.oid, OidType[simulationRecord.type],
                  simulationRecord.returnValue)

\* a conversion that leaves out the definitions of unknown type
ConvertSkippingUnknown(listQADeviceSimulatorDefinition) ==
    LET known == SelectSeq(listQADeviceSimulatorDefinition,
                           LAMBDA d : enumContainsName(OidType, d.type))
    IN  [result  |-> PyList([i \in 1..Len(known) |-> RecordOf(known[i])]),
         printed |-> <<>>]

\* ConvertSimulationFile: [result, printed]; the loop raises at the first
\* definition whose type is no member name, and the except clause prints it
ConvertSimulationFile(listQADeviceSimulatorDefinition) ==
    LET unknown == {i \in 1..Len(listQADeviceSimulatorDefinition) :
                       ~enumContainsName(OidType, listQADeviceSimulatorDefinition[i].type)}
    IN  IF unknown = {}
        THEN [result  |-> PyList([i \in 1..Len(listQADeviceSimulatorDefinition) |->
                                      RecordOf(listQADeviceSimulatorDefinition[i])]),
              printed |-> <<>>]
        ELSE LET first == CHOOSE i \in unknown : \A j \in unknown : i <= j
             IN  [result  |-> PyNone,
                  printed |-> <<QaMessage("OID type not found for simulation record",
                                          listQADeviceSimulatorDefinition[first].oid,
                                          listQADeviceSimulatorDefinition[first].type)>>]

\* rows written value first
RowsValueFirst(listSnmpsimRecords) ==
    [i \in 1..Len(listSnmpsimRecords) |->
        <<listSnmpsimRecords[i].value, listSnmpsimRecords[i].oidType, listSnmpsimRecords[i].oid>>]

\* for snmpsimRecord in listSnmpsimRecords: writer.writerow([oid, oidType, value])
Rows(listSnmpsimRecords) ==
    [i \in 1..Len(listSnmpsimRecords) |->
        <<listSnmpsimRecords[i].oid, listSnmpsimRecords[i].oidType, listSnmpsimRecords[i].value>>]

\* main(): ValidateFile(arguments.inputPath) is False
InputNotFound ==
    /\ qaPc = "start"
    /\ qaStdout' = Append(qaStdout, QaMessage("File could not be processed", "", ""))
    /\ qaPc' = "done"
    /\ UNCHANGED <<xmlFile, qaDeviceSimulatorDefinitions, snmpsimRecords, snmprecFile>>
    /\ UNCHANGED <<walkVars, sanVars>>

\* main(): the file exists; ValidateAndReplaceXmlFile writes the updated
\* file (xmlFile holds its Definition elements), ParseQADeviceSimulatorFile reads it
Parse ==
    /\ qaPc = "start"
    /\ qaDeviceSimulatorDefinitions' = ParseQADeviceSimulatorFile(xmlFile).result
    /\ qaStdout' = qaStdout \o ParseQADeviceSimulatorFile(xmlFile).printed
    /\ qaPc' = "parsed"
    /\ UNCHANGED <<xmlFile, snmpsimRecords, snmprecFile>>
    /\ UNCHANGED <<walkVars, sanVars>>

\* main(): if not qaDeviceSimulatorDefinitions: raise SystemExit()
ExitWithoutDefinitions ==
    /\ qaPc = "parsed"
    /\ Falsy(qaDeviceSimulatorDefinitions)
    /\ qaPc' = "exited"
    /\ UNCHANGED <<xmlFile, qaDeviceSimulatorDefinitions, snmpsimRecords, snmprecFile, qaStdout>>
    /\ UNCHANGED <<walkVars, sanVars>>

\* main(): snmpsimRecords = ConvertSimulationFile(qaDeviceSimulatorDefinitions)
Convert ==
    /\ qaPc = "parsed"
    /\ ~Falsy(qaDeviceSimulatorDefinitions)
    /\ snmpsimRecords' = ConvertSimulationFile(qaDeviceSimulatorDefinitions.value).result
    /\ qaStdout' = qaStdout \o ConvertSimulationFile(qaDeviceSimulatorDefinitions.value).printed
    /\ qaPc' = "converted"
    /\ UNCHANGED <<xmlFile, qaDeviceSimulatorDefinitions, snmprecFile>>
    /\ UNCHANGED <<walkVars, sanVars>>

\* main(): if not snmpsimRecords: raise SystemExit()
ExitWithoutRecords ==
    /\ qaPc = "converted"
    /\ Falsy(snmpsimRecords)
    /\ qaPc' = "exited"
    /\ UNCHANGED <<xmlFile, qaDeviceSimulatorDefinitions, snmpsimRecords, snmprecFile, qaStdout>>
    /\ UNCHANGED <<walkVars, sanVars>>

\* main(): GenerateSnmprecFile(snmpsimRecords, arguments.outputPath)
GenerateSnmprecFile ==
    /\ qaPc = "converted"
    /\ ~Falsy(snmpsimRecords)
    /\ \/ /\ snmprecFile' = File(Rows(snmpsimRecords.value))
          /\ qaStdout' = Append(qaStdout, QaMessage("File generated successfully", "", ""))
       \/ /\ qaStdout' = Append(qaStdout, QaMessage("Output file path is an empty string", "", ""))
          /\ UNCHANGED snmprecFile     \* --output ""
       \/ /\ qaStdout' = Append(qaStdout, QaMessage("GenerateSnmprecFile|Exception", "", ""))
          /\ UNCHANGED snmprecFile     \* open(outputPath, 'w') raises
    /\ qaPc' = "done"
    /\ UNCHANGED <<xmlFile, qaDeviceSimulatorDefinitions, snmpsimRecords>>
    /\ UNCHANGED <<walkVars, sanVars>>

\* no SNMP walk is being normalised
WalkIdle ==
    /\ pc = "idle"
    /\ inputFile = <<>>
    /\ decodeError = FALSE
    /\ tempFile = NoFile
    /\ outTextFile = NoFile
    /\ previousLine = <<>>
    /\ lineCount = 0
    /\ stdout = <<>>

\* the XML file has either structure
QaInit ==
    /\ qaPc = "start"
    /\ \E list \in SeqsUpTo(Elements, MaxDefinitions) :
           \/ xmlFile = [nested |-> list, flat |-> <<>>]
           \/ xmlFile = [nested |-> <<>>, flat |-> list]
    /\ qaDeviceSimulatorDefinitions = PyNone
    /\ snmpsimRecords = PyNone
    /\ snmprecFile = NoFile
    /\ qaStdout = <<>>

InitQA == WalkIdle /\ QaInit /\ SanIdle

NextQA ==
    \/ InputNotFound
    \/ Parse
    \/ ExitWithoutDefinitions
    \/ Convert
    \/ ExitWithoutRecords
    \/ GenerateSnmprecFile

\* a run of qa_device_simulator_to_snmpsim.py
SpecQA == InitQA /\ [][NextQA]_vars

-----------------------------------------------------------------------------
(* qa_device_simulator_to_snmpsim.py: properties of the pipeline *)

\* the table of type names and codes, with both spellings of each alias
OidTypeCode ==
    [ Integer32        |-> 2,
      OctetString      |-> 4,
      Null             |-> 5,
      ObjectId         |-> 6,
      ObjectIdentifier |-> 6,
      IpAddress        |-> 64,
      IPAddress        |-> 64,
      Counter32        |-> 65,
      Gauge32          |-> 66,
      TimeTicks        |-> 67,
      Opaque           |-> 68,
      Counter64        |-> 70 ]

\* the Map Stage was given a non-empty list of definitions
Mapped ==
    /\ qaPc \in {"converted", "exited", "done"}
    /\ ~qaDeviceSimulatorDefinitions.none
    /\ Len(qaDeviceSimulatorDefinitions.value) > 0

\* the definitions whose type is no member name of the enumeration
Offending ==
    {i \in 1..Len(qaDeviceSimulatorDefinitions.value) :
        qaDeviceSimulatorDefinitions.value[i].type \notin DOMAIN OidType}

\* C3: if any definition of the parsed list, at any position, has a type that
\* is no member name of the enumeration, the Map Stage returns no records at
\* all, the error printed names the oid and the type of an offending entry,
\* the Emit Stage is not run and no output file is written.
C3_TypeLookupFailureAborts ==
    (Mapped /\ Offending # {}) =>
        /\ snmpsimRecords.none
        /\ \E k \in Offending : \E m \in 1..Len(qaStdout) :
              /\ qaStdout[m].text = "OID type not found for simulation record"
              /\ qaStdout[m].oid = qaDeviceSimulatorDefinitions.value[k].oid
              /\ qaStdout[m].type = qaDeviceSimulatorDefinitions.value[k].type
        /\ qaPc # "done"
        /\ ~snmprecFile.exists
        /\ \A m \in 1..Len(qaStdout) : qaStdout[m].text # "File generated successfully"

\* C3 witness: a valid definition is followed by one of type "Bogus", and the
\* run has left without records and without an output file.
C3_Witness ==
    /\ qaPc = "exited"
    /\ ~qaDeviceSimulatorDefinitions.none
    /\ Len(qaDeviceSimulatorDefinitions.value) = 2
    /\ qaDeviceSimulatorDefinitions.value[1].type = "Integer32"
    /\ qaDeviceSimulatorDefinitions.value[2].type = "Bogus"
    /\ snmpsimRecords.none
    /\ ~snmprecFile.exists

\* C4: for every non-empty list of definitions whose types are all member
\* names of the enumeration, the rows of the output file are as many as the
\* definitions, in their order, row i being the oid of definition i, the
\* code of its type and its returnValue; and the Emit Stage, once it has run,
\* has written them unless it reported that it could not.
C4_RowsFollowDefinitions ==
    (Mapped /\ Offending = {}) =>
        /\ snmprecFile.exists =>
              /\ Len(snmprecFile.lines) = Len(qaDeviceSimulatorDefinitions.value)
              /\ \A i \in 1..Len(snmprecFile.lines) :
                    snmprecFile.lines[i] =
                        << qaDeviceSimulatorDefinitions.value[i].oid,
                           OidTypeCode[qaDeviceSimulatorDefinitions.value[i].type],
                           qaDeviceSimulatorDefinitions.value[i].returnValue >>
        /\ qaPc # "exited"
        /\ qaPc = "done" =>
              \/ snmprecFile.exists
              \/ \E m \in 1..Len(qaStdout) :
                    qaStdout[m].text \in {"Output file path is an empty string",
                                          "GenerateSnmprecFile|Exception"}

\* C4 witness: two definitions of types ObjectId and IPAddress were written
\* as two rows, in their order.
C4_Witness ==
    /\ qaPc = "done"
    /\ snmprecFile.exists
    /\ snmprecFile.lines = << <<"1.3.6.2", 6, "5">>, <<"1.3.6.1", 64, "5">> >>
    /\ qaDeviceSimulatorDefinitions.value[1].type = "ObjectId"
    /\ qaDeviceSimulatorDefinitions.value[2].type = "IPAddress"

\* C9: the lookup of the Map Stage succeeds exactly for the names of the
\* table, both spellings of each alias included, with the code of the table:
\* the stage returns records exactly when every type is a name of the table,
\* and each record then carries the table's code.
C9_LookupDomain ==
    Mapped =>
        /\ snmpsimRecords.none <=>
              \E i \in 1..Len(qaDeviceSimulatorDefinitions.value) :
                  qaDeviceSimulatorDefinitions.value[i].type \notin DOMAIN OidTypeCode
        /\ ~snmpsimRecords.none =>
              \A i \in 1..Len(snmpsimRecords.value) :
                  snmpsimRecords.value[i].oidType =
                      OidTypeCode[qaDeviceSimulatorDefinitions.value[i].type]

\* the value an optional attribute is to give: the attribute's, or "NA"
ValueOrNA(element, name) ==
    IF name \in DOMAIN element.attrib THEN PyStr(element.attrib[name]) ELSE PyStr("NA")

\* C10: for every parsed Definition element, each of logOutput, comment,
\* delay, save and skipOid is "NA" when the XML attribute is absent, and the
\* attribute's value when it is present.
C10_OptionalAttributeDefaults ==
    (qaPc # "start" /\ ~qaDeviceSimulatorDefinitions.none) =>
        \A i \in 1..Len(qaDeviceSimulatorDefinitions.value) :
            LET element    == ListDefinitions(xmlFile)[i]
                definition == qaDeviceSimulatorDefinitions.value[i]
            IN  /\ definition.logOutput = ValueOrNA(element, "LogOutput")
                /\ definition.comment = ValueOrNA(element, "Comment")
                /\ definition.delay = ValueOrNA(element, "Delay")
                /\ definition.save = ValueOrNA(element, "Save")
                /\ definition.skipOid = ValueOrNA(element, "SkipOID")

-----------------------------------------------------------------------------
(* qa_device_simulator_to_snmpsim.py: ValidateAndReplaceXmlFile *)

\* longest XML file, in lines
MaxXmlLines == 2

\* [a-zA-Z], as far as the lines below use it
Letters == {"D", "a", "b"}

\* the lines an XML file is made of here; "&#x" is one token
XmlLines ==
    { <<"&#x", "1", "D", ";", "\n">>,
      <<"&#x", "0", "0", ";", "\n">>,
      <<"&#x", "5", ";", "\n">>,
      <<"&#x", "D", ";", "\n">>,
      <<"a", "&#x", "1", ";", "b", "&#x", "1", "2", ";", "\n">>,
      <<"&#x", "1", "2", "3", ";", "\n">>,
      <<"&#x", "D", "D", ";", "\n">>,
      <<"&#x", "0", "D", ";", "\n">>,
      <<"&#x", "&#x", "1", ";", "\n">>,
      <<"<Definition OID=", "1", "/>", "\n">>,
      <<"\n">> }

\* the text at places i .. i + n - 1 of a line, or <<>> when the line ends before
Slice(line, i, n) == IF i + n - 1 <= Len(line) THEN SubSeq(line, i, i + n - 1) ELSE <<>>

\* the group (\d{1,2}|[a-zA-Z]|1[a-zA-Z]) of a match of
\* &#x(\d{1,2}|[a-zA-Z]|1[a-zA-Z]); that starts at place i, or <<>>
GroupAt(line, i) ==
    LET one == Slice(line, i, 3)
        two == Slice(line, i, 4)
    IN  IF two # <<>> /\ two[1] = "&#x" /\ two[2] \in Digits /\ two[3] \in Digits /\ two[4] = ";"
        THEN <<two[2], two[3]>>
        ELSE IF one # <<>> /\ one[1] = "&#x" /\ one[2] \in Digits /\ one[3] = ";"
        THEN <<one[2]>>
        ELSE IF one # <<>> /\ one[1] = "&#x" /\ one[2] \in Letters /\ one[3] = ";"
        THEN <<one[2]>>
        ELSE IF two # <<>> /\ two[1] = "&#x" /\ two[2] = "1" /\ two[3] \in Letters /\ two[4] = ";"
        THEN <<two[2], two[3]>>
        ELSE <<>>

\* re.search(r"&#x(\d{1,2});|&#x([a-zA-Z]|1[a-zA-Z]);", line)
malformedEncodingFound(line) == \E i \in 1..Len(line) : GroupAt(line, i) # <<>>

RECURSIVE SubFrom(_, _)
\* re.sub(r"&#x(\d{1,2}|[a-zA-Z]|1[a-zA-Z]);", r"0\1.", line), from place i on
SubFrom(line, i) ==
    IF i > Len(line) THEN <<>>
    ELSE IF GroupAt(line, i) # <<>>
    THEN <<"0">> \o GroupAt(line, i) \o <<".">> \o SubFrom(line, i + Len(GroupAt(line, i)) + 2)
    ELSE <<line[i]>> \o SubFrom(line, i + 1)

\* the line appended to updatedLines
lineReplaced(line) == IF malformedEncodingFound(line) THEN SubFrom(line, 1) ELSE line

\* ValidateFile(filePath) is False
XmlFileNotFound ==
    /\ sanPc = "validate"
    /\ sanPc' = "done"
    /\ UNCHANGED <<fileLines, lineIndex, updatedLines, updatedFile>>
    /\ UNCHANGED <<walkVars, qaVars>>

\* fileLines = xmlFile.readlines()
ReadLines ==
    /\ sanPc = "validate"
    /\ sanPc' = "loop"
    /\ UNCHANGED <<fileLines, lineIndex, updatedLines, updatedFile>>
    /\ UNCHANGED <<walkVars, qaVars>>

\* the body of "for line in fileLines"
ReplaceLine ==
    /\ sanPc = "loop"
    /\ lineIndex < Len(fileLines)
    /\ updatedLines' = Append(updatedLines, lineReplaced(fileLines[lineIndex + 1]))
    /\ lineIndex' = lineIndex + 1
    /\ UNCHANGED <<sanPc, fileLines, updatedFile>>
    /\ UNCHANGED <<walkVars, qaVars>>

\* xmlUpdatedFile.writelines(updatedLines)
WriteUpdatedFile ==
    /\ sanPc = "loop"
    /\ lineIndex = Len(fileLines)
    /\ updatedFile' = File(updatedLines)
    /\ sanPc' = "done"
    /\ UNCHANGED <<fileLines, lineIndex, updatedLines>>
    /\ UNCHANGED <<walkVars, qaVars>>

SanInit ==
    /\ sanPc = "validate"
    /\ fileLines \in SeqsUpTo(XmlLines, MaxXmlLines)
    /\ lineIndex = 0
    /\ updatedLines = <<>>
    /\ updatedFile = NoFile

InitSanitize == WalkIdle /\ QaIdle /\ SanInit

NextSanitize ==
    \/ XmlFileNotFound
    \/ ReadLines
    \/ ReplaceLine
    \/ WriteUpdatedFile

\* a run of ValidateAndReplaceXmlFile
SpecSanitize == InitSanitize /\ [][NextSanitize]_vars

\* the entities of a line: the places where a match starts
Entities(line) == {i \in 1..Len(line) : GroupAt(line, i) # <<>>}

RECURSIVE SumOver(_, _)
SumOver(places, line) ==
    IF places = {} THEN 0
    ELSE LET i == CHOOSE k \in places : TRUE
         IN  Len(GroupAt(line, i)) + 2 + SumOver(places \ {i}, line)

\* C6: every malformed entity of a line is replaced by a two-character
\* zero-padded numeral and a dot, so that "&#x1D;" becomes "0D.", "&#x00;"
\* becomes "00." and "&#x5;" becomes "05."; a line without entity is copied
\* unchanged.
C6_EntityRepair ==
    \A i \in 1..Len(updatedLines) :
        /\ Entities(fileLines[i]) = {} => updatedLines[i] = fileLines[i]
        /\ fileLines[i] = <<"&#x", "1", "D", ";", "\n">> => updatedLines[i] = <<"0", "D", ".", "\n">>
        /\ fileLines[i] = <<"&#x", "0", "0", ";", "\n">> => updatedLines[i] = <<"0", "0", ".", "\n">>
        /\ fileLines[i] = <<"&#x", "5", ";", "\n">> => updatedLines[i] = <<"0", "5", ".", "\n">>
        /\ Len(updatedLines[i]) =
               Len(fileLines[i]) - SumOver(Entities(fileLines[i]), fileLines[i])
                   + 3 * Cardinality(Entities(fileLines[i]))

=============================================================================
